---- MODULE Spec2Model ----
(***************************************************************************)
(* Model of cortex/lib/model/validation.py: the placeholder value objects, *)
(* the model_template registry with its two accessors, and the two tree    *)
(* builders.                                                               *)
(*                                                                         *)
(* Python values are tagged tuples <<class, payload...>>.  A string is the *)
(* sequence of its characters, so that "<" + k + ">" and strip("<>") are   *)
(* computed, not assumed.                                                  *)
(***************************************************************************)
EXTENDS Integers, Sequences, FiniteSets, TLC

\* Longest kind / literal string drawn as an input.
MaxLen == 2

\* Longest listing handed to a tree builder.
MaxListing == 2

\* Largest number of insertions into the placeholder-keyed mapping.
MaxInserts == 2

(***************************************************************************)
(* Python values                                                           *)
(***************************************************************************)
PyStr(s) == <<"str", s>>
PyInt(n) == <<"int", n>>
None == <<"NoneType">>
Tuple(fields) == <<"tuple", fields>>
Cls(o) == o[1]
Fields(o) == o[2]

\* The characters of the input strings: a bracket that strip("<>") removes
\* and a character that it keeps.
Alphabet == {"<", "a"}

RECURSIVE StringsOfLen(_)
StringsOfLen(n) ==
    IF n = 0 THEN {<<>>}
    ELSE {Append(s, c) : s \in StringsOfLen(n - 1), c \in Alphabet}

Strings == UNION {StringsOfLen(n) : n \in 0..MaxLen}

IntLits == {-2, -1, 0}

\* The literals a caller may hand to a constructor: strings and integers.
Literals == {PyStr(s) : s \in Strings} \cup {PyInt(n) : n \in IntLits}

\* The outcome of a call: a returned value or a raised exception.
Return(v) == <<"return", v>>
Raise(e) == <<"raise", e>>
Returned(r) == r[1] = "return"
Raised(r, e) == r = Raise(e)
Value(r) == r[2]

(***************************************************************************)
(* TemplatePlaceholder and GenericPlaceholder                              *)
(***************************************************************************)
\* str.strip(chars): drop the leading and the trailing run of chars.
RECURSIVE LStrip(_, _)
LStrip(s, chars) ==
    IF s # <<>> /\ Head(s) \in chars THEN LStrip(Tail(s), chars) ELSE s

RECURSIVE RStrip(_, _)
RStrip(s, chars) ==
    IF s # <<>> /\ s[Len(s)] \in chars
    THEN RStrip(SubSeq(s, 1, Len(s) - 1), chars)
    ELSE s

Strip(s, chars) == RStrip(LStrip(s, chars), chars)

\* TemplatePlaceholder.__new__: "<" + placeholder + ">" needs a str operand;
\* there is no other validation.
TemplatePlaceholder(placeholder) ==
    IF Cls(placeholder) = "str"
    THEN Return(<<"TemplatePlaceholder",
                  <<PyStr(<<"<">> \o placeholder[2] \o <<">">>)>>>>)
    ELSE Raise("TypeError")

\* GenericPlaceholder.__new__: any value is stored beside the fixed tag.
GenericPlaceholder(value) ==
    Return(<<"GenericPlaceholder",
             <<PyStr(<<"<", "g", "e", "n", "e", "r", "i", "c", ">">>), value>>>>)

\* The namedtuple field accessors.
Placeholder(o) == Fields(o)[1]
PlaceholderValue(o) == Fields(o)[2]

\* The property `type` of both classes: str(self.placeholder).strip("<>").
Type(o) == PyStr(Strip(Placeholder(o)[2], {"<", ">"}))

IsTupleLike(o) == Cls(o) \in {"tuple", "TemplatePlaceholder", "GenericPlaceholder"}

\* tuple.__eq__: same length and equal items (items here are str and int).
TupleEq(f, g) == Len(f) = Len(g) /\ \A i \in 1..Len(f) : f[i] = g[i]

\* GenericPlaceholder.__eq__ had it compared the value as well (the equality
\* a namedtuple has without the override).
GenericEq_ByFields(self, other) ==
    IF Cls(other) = "GenericPlaceholder"
    THEN TupleEq(Fields(self), Fields(other))
    ELSE FALSE

\* GenericPlaceholder.__eq__.
GenericEq(self, other) ==
    IF Cls(other) = "GenericPlaceholder"
    THEN Placeholder(self) = Placeholder(other)
    ELSE FALSE

\* x == y with Python's dispatch: GenericPlaceholder overrides __eq__, so it
\* answers first when it is the left operand or a subclass of the left
\* operand's class, and as the reflected operand when the left operand's
\* __eq__ does not know the right one; TemplatePlaceholder and tuple compare
\* as tuples; PlaceholderGroup compares by identity.
PyEq(x, y) ==
    CASE Cls(x) = "GenericPlaceholder" -> GenericEq(x, y)
      [] Cls(y) = "GenericPlaceholder" /\ Cls(x) = "tuple" -> GenericEq(y, x)
      [] Cls(y) = "GenericPlaceholder" /\ Cls(x) = "TemplatePlaceholder" ->
            TupleEq(Fields(x), Fields(y))
      [] Cls(y) = "GenericPlaceholder" -> GenericEq(y, x)
      [] IsTupleLike(x) /\ IsTupleLike(y) -> TupleEq(Fields(x), Fields(y))
      [] OTHER -> x = y

\* hash(o).  hash(n) of a small int is n, except hash(-1) = -2; the hash of
\* the empty str is 0; the keyed hash of a non-empty str is kept symbolic
\* (one value per string); a tuple's hash is a function of its items' hashes,
\* kept as their sequence; GenericPlaceholder.__hash__ hashes the tuple
\* (placeholder, value), TemplatePlaceholder inherits tuple.__hash__;
\* PlaceholderGroup and the predictor types hash by identity.
RECURSIVE PyHash(_)
PyHash(o) ==
    CASE Cls(o) = "int" -> <<"int", IF o[2] = -1 THEN -2 ELSE o[2]>>
      [] Cls(o) = "str" -> IF o[2] = <<>> THEN <<"int", 0>> ELSE <<"strhash", o[2]>>
      [] IsTupleLike(o) ->
            <<"tuplehash", [i \in 1..Len(Fields(o)) |-> PyHash(Fields(o)[i])]>>
      [] OTHER -> <<"id", o>>

(***************************************************************************)
(* dict, set and PlaceholderGroup                                          *)
(***************************************************************************)
\* A dict is the sequence of its <<key, value>> entries in insertion order;
\* a set is the sequence of its members.
EmptyDict == <<"dict", <<>>>>
EmptySet == <<"set", <<>>>>
Entries(d) == d[2]
Members(s) == s[2]

\* The key comparison of dict and set lookup: equal hashes first, and then
\* the same object or ==.
SameKey(k1, k2) == PyHash(k1) = PyHash(k2) /\ (k1 = k2 \/ PyEq(k1, k2))

KeyIndexes(d, k) == {i \in 1..Len(Entries(d)) : SameKey(Entries(d)[i][1], k)}

\* d[k] = v: the entry whose key matches k keeps its key and takes the
\* value; without a match a new entry is added.
DictSetItem(d, k, v) ==
    IF KeyIndexes(d, k) = {}
    THEN <<"dict", Append(Entries(d), <<k, v>>)>>
    ELSE LET i == CHOOSE j \in KeyIndexes(d, k) : TRUE
         IN  <<"dict", [Entries(d) EXCEPT ![i] = <<Entries(d)[i][1], v>>]>>

\* d[k]: the value of the matching entry, or KeyError.
DictGetItem(d, k) ==
    IF KeyIndexes(d, k) = {}
    THEN Raise("KeyError")
    ELSE Return(Entries(d)[CHOOSE j \in KeyIndexes(d, k) : TRUE][2])

\* The display {k1: v1, k2: v2, ...}: the items are stored left to right.
RECURSIVE DictLiteral(_)
DictLiteral(items) ==
    IF items = <<>> THEN EmptyDict
    ELSE LET n == Len(items)
         IN  DictSetItem(DictLiteral(SubSeq(items, 1, n - 1)),
                         items[n][1], items[n][2])

SetAdd(s, k) ==
    IF \E i \in 1..Len(Members(s)) : SameKey(Members(s)[i], k)
    THEN s
    ELSE <<"set", Append(Members(s), k)>>

\* The display {m1, m2, ...}.
RECURSIVE SetLiteral(_)
SetLiteral(items) ==
    IF items = <<>> THEN EmptySet
    ELSE LET n == Len(items)
         IN  SetAdd(SetLiteral(SubSeq(items, 1, n - 1)), items[n])

\* PlaceholderGroup(*args): an object with identity id that keeps its parts.
PlaceholderGroup(id, parts) == <<"PlaceholderGroup", id, parts>>

(***************************************************************************)
(* The module-level placeholders and model_template                        *)
(***************************************************************************)
IntegerPlaceholder ==
    Value(TemplatePlaceholder(PyStr(<<"i", "n", "t", "e", "g", "e", "r">>)))
AnyPlaceholder == Value(TemplatePlaceholder(PyStr(<<"a", "n", "y">>)))
SinglePlaceholder ==
    Value(TemplatePlaceholder(PyStr(<<"s", "i", "n", "g", "l", "e">>)))
ExclAlternativePlaceholder ==
    Value(TemplatePlaceholder(PyStr(<<"e", "x", "c", "l", "u", "s", "i", "v", "e">>)))
UniquePlaceholder ==
    Value(TemplatePlaceholder(PyStr(<<"u", "n", "i", "q", "u", "e">>)))

\* The predictor types imported from cortex.lib.api, and a tag that is not
\* one of them.
PythonPredictorType == <<"PredictorType", "python">>
TensorFlowPredictorType == <<"PredictorType", "tensorflow">>
ONNXPredictorType == <<"PredictorType", "onnx">>
UnknownPredictorType == <<"PredictorType", "unknown">>
PredictorTypes ==
    {PythonPredictorType, TensorFlowPredictorType, ONNXPredictorType,
     UnknownPredictorType}

SavedModelPb ==
    PyStr(<<"s", "a", "v", "e", "d", "_", "m", "o", "d", "e", "l", ".", "p", "b">>)
Variables == PyStr(<<"v", "a", "r", "i", "a", "b", "l", "e", "s">>)
VariablesIndex ==
    PyStr(<<"v", "a", "r", "i", "a", "b", "l", "e", "s", ".",
            "i", "n", "d", "e", "x">>)
VariablesData ==
    PyStr(<<"v", "a", "r", "i", "a", "b", "l", "e", "s", ".", "d", "a", "t", "a",
            "-", "0", "0", "0", "0", "0", "-", "o", "f", "-">>)
DotOnnx == PyStr(<<".", "o", "n", "n", "x">>)

PythonTemplate == DictLiteral(<<<<IntegerPlaceholder, AnyPlaceholder>>>>)

TensorFlowTemplate ==
    DictLiteral(<<
        <<IntegerPlaceholder,
          DictLiteral(<<
              <<AnyPlaceholder, None>>,
              <<Value(GenericPlaceholder(SavedModelPb)), None>>,
              <<Value(GenericPlaceholder(Variables)),
                SetLiteral(<<
                    Value(GenericPlaceholder(VariablesIndex)),
                    PlaceholderGroup(1, <<Value(GenericPlaceholder(VariablesData)),
                                          AnyPlaceholder>>),
                    AnyPlaceholder>>)>>
          >>)>>
    >>)

ONNXTemplate ==
    DictLiteral(<<
        <<IntegerPlaceholder,
          SetLiteral(<<PlaceholderGroup(2, <<SinglePlaceholder,
                                             Value(GenericPlaceholder(DotOnnx))>>)>>)>>,
        <<PlaceholderGroup(3, <<ExclAlternativePlaceholder, SinglePlaceholder,
                                Value(GenericPlaceholder(DotOnnx))>>),
          None>>
    >>)

ModelTemplate ==
    DictLiteral(<<
        <<PythonPredictorType, PythonTemplate>>,
        <<TensorFlowPredictorType, TensorFlowTemplate>>,
        <<ONNXPredictorType, ONNXTemplate>>
    >>)

(***************************************************************************)
(* The registry accessors and the tree builders                            *)
(***************************************************************************)
\* model_pattern had it used model_template.get(predictor_type, {}).
model_pattern_Default(template, predictor_type) ==
    IF Returned(DictGetItem(template, predictor_type))
    THEN DictGetItem(template, predictor_type)
    ELSE Return(EmptyDict)

\* model_pattern: model_template[predictor_type].
model_pattern(template, predictor_type) == DictGetItem(template, predictor_type)

\* dirs_model_pattern had it wrapped the tree under AnyPlaceholder.
dirs_model_pattern_AnyKey(template, predictor_type) ==
    LET entry == DictGetItem(template, predictor_type)
    IN  IF Returned(entry)
        THEN Return(DictLiteral(<<<<AnyPlaceholder, Value(entry)>>>>))
        ELSE entry

\* dirs_model_pattern: {UniquePlaceholder: model_template[predictor_type]};
\* the subscript is evaluated first, so its KeyError leaves no dict behind.
dirs_model_pattern(template, predictor_type) ==
    LET entry == DictGetItem(template, predictor_type)
    IN  IF Returned(entry)
        THEN Return(DictLiteral(<<<<UniquePlaceholder, Value(entry)>>>>))
        ELSE entry

\* str.rfind("/") + 1: the length of the prefix that ends in the last "/".
RECURSIVE RFindSlash(_)
RFindSlash(s) ==
    IF s = <<>> THEN 0
    ELSE IF s[Len(s)] = "/" THEN Len(s)
    ELSE RFindSlash(SubSeq(s, 1, Len(s) - 1))

\* os.path.dirname (posixpath): the head up to the last "/", without its
\* trailing slashes unless it consists of slashes only.
Dirname(path) ==
    LET head == SubSeq(path[2], 1, RFindSlash(path[2]))
    IN  IF head # <<>> /\ \E i \in 1..Len(head) : head[i] # "/"
        THEN PyStr(RStrip(head, {"/"}))
        ELSE PyStr(head)

\* A local variable that no assignment has reached.
Unbound == <<"unbound">>

\* The local model_name of models_tree_from_s3_top_paths when its loop ends.
LoopModelName(s3_top_paths) ==
    IF s3_top_paths = <<>> THEN Unbound
    ELSE Dirname(s3_top_paths[Len(s3_top_paths)])

\* models_tree_from_s3_top_paths: the loop result is dropped, {} is returned.
models_tree_from_s3_top_paths(s3_top_paths, predictor_type) == Return(EmptyDict)

\* models_tree_from_s3_path had it stored every item of the listing under its
\* index.
models_tree_from_s3_path_ByIndex(s3_path, predictor_type) ==
    Return(DictLiteral([i \in 1..Len(s3_path) |-> <<PyInt(i), s3_path[i]>>]))

\* models_tree_from_s3_path: {} is returned.
models_tree_from_s3_path(s3_path, predictor_type) == Return(EmptyDict)

(***************************************************************************)
(* Callers of the registry and the tree builders                           *)
(***************************************************************************)
VARIABLES
    model_template, \* the module-level dict
    call,           \* per caller: <<function, predictor type, listing>> of its last call
    ret,            \* per caller: the outcome of its last call
    model_name      \* per caller: the local model_name of its last call's frame

\* Two concurrent callers.
Callers == {1, 2}

\* The paths a listing is made of.
Paths == {PyStr(<<"a", "/", "b">>), PyStr(<<"a", "/", "c">>)}

RECURSIVE ListingsOfLen(_)
ListingsOfLen(n) ==
    IF n = 0 THEN {<<>>}
    ELSE {Append(l, q) : l \in ListingsOfLen(n - 1), q \in Paths}

Listings == UNION {ListingsOfLen(n) : n \in 0..MaxListing}

NoCall == <<"none", None, <<>>>>

CallModelPattern(c, p) ==
    /\ call' = [call EXCEPT ![c] = <<"model_pattern", p, <<>>>>]
    /\ ret' = [ret EXCEPT ![c] = model_pattern(model_template, p)]
    /\ model_name' = [model_name EXCEPT ![c] = Unbound]
    /\ UNCHANGED model_template

\* dirs_model_pattern had it wrapped the registry's entry in place.
CallDirsModelPattern_InPlace(c, p) ==
    /\ call' = [call EXCEPT ![c] = <<"dirs_model_pattern", p, <<>>>>]
    /\ ret' = [ret EXCEPT ![c] = dirs_model_pattern(model_template, p)]
    /\ model_name' = [model_name EXCEPT ![c] = Unbound]
    /\ model_template' =
          IF Returned(ret'[c])
          THEN DictSetItem(model_template, p, Value(ret'[c]))
          ELSE model_template

CallDirsModelPattern(c, p) ==
    /\ call' = [call EXCEPT ![c] = <<"dirs_model_pattern", p, <<>>>>]
    /\ ret' = [ret EXCEPT ![c] = dirs_model_pattern(model_template, p)]
    /\ model_name' = [model_name EXCEPT ![c] = Unbound]
    /\ UNCHANGED model_template

CallTreeFromTopPaths(c, paths, p) ==
    /\ call' = [call EXCEPT ![c] = <<"models_tree_from_s3_top_paths", p, paths>>]
    /\ ret' = [ret EXCEPT ![c] = models_tree_from_s3_top_paths(paths, p)]
    /\ model_name' = [model_name EXCEPT ![c] = LoopModelName(paths)]
    /\ UNCHANGED model_template

CallTreeFromPath(c, paths, p) ==
    /\ call' = [call EXCEPT ![c] = <<"models_tree_from_s3_path", p, paths>>]
    /\ ret' = [ret EXCEPT ![c] = models_tree_from_s3_path(paths, p)]
    /\ model_name' = [model_name EXCEPT ![c] = Unbound]
    /\ UNCHANGED model_template

registryVars == <<model_template, call, ret, model_name>>

RegistryInit ==
    /\ model_template = ModelTemplate
    /\ call = [c \in Callers |-> NoCall]
    /\ ret = [c \in Callers |-> Return(None)]
    /\ model_name = [c \in Callers |-> Unbound]

RegistryNext ==
    \E c \in Callers, p \in PredictorTypes :
        \/ CallModelPattern(c, p)
        \/ CallDirsModelPattern(c, p)
        \/ \E paths \in Listings : CallTreeFromTopPaths(c, paths, p)
        \/ \E paths \in Listings : CallTreeFromPath(c, paths, p)

(***************************************************************************)
(* A client of the placeholder classes: it constructs two objects a and b  *)
(* and then evaluates a == b, b == a, hash(a), hash(b), a.type and b.type. *)
(***************************************************************************)
VARIABLES
    made,   \* per name: <<constructor, argument, outcome>> of the call that bound it
    probe   \* the results evaluated on the two objects, or NotProbed

Names == {"a", "b"}
NotMade == <<"none", None, Raise("NameError")>>
NotProbed == <<"none">>
Obj(n) == Value(made[n][3])

\* o.type: the property of the two placeholder classes; str, int and tuple
\* have no such attribute.
GetType(o) ==
    IF Cls(o) \in {"TemplatePlaceholder", "GenericPlaceholder"}
    THEN Return(Type(o))
    ELSE Raise("AttributeError")

Bind(n, constructor, arg, outcome) ==
    /\ made' = [made EXCEPT ![n] = <<constructor, arg, outcome>>]
    /\ probe' = NotProbed

NewTemplatePlaceholder(n, arg) ==
    Bind(n, "TemplatePlaceholder", arg, TemplatePlaceholder(arg))

NewGenericPlaceholder(n, arg) ==
    Bind(n, "GenericPlaceholder", arg, GenericPlaceholder(arg))

\* A plain tuple with the fields of GenericPlaceholder(arg).
NewTuple(n, arg) ==
    Bind(n, "tuple", arg, Return(Tuple(Fields(Value(GenericPlaceholder(arg))))))

\* The literal itself.
NewLiteral(n, arg) == Bind(n, "literal", arg, Return(arg))

Probe ==
    /\ \A n \in Names : Returned(made[n][3])
    /\ probe' = <<"probed",
                  PyEq(Obj("a"), Obj("b")), PyEq(Obj("b"), Obj("a")),
                  PyHash(Obj("a")), PyHash(Obj("b")),
                  GetType(Obj("a")), GetType(Obj("b"))>>
    /\ UNCHANGED made

Probed == probe # NotProbed
EqAB == probe[2]
EqBA == probe[3]
HashA == probe[4]
HashB == probe[5]
TypeA == probe[6]
TypeB == probe[7]

placeholderVars == <<made, probe>>

PlaceholderInit ==
    /\ made = [n \in Names |-> NotMade]
    /\ probe = NotProbed

PlaceholderNext ==
    \/ \E n \in Names, arg \in Literals :
          \/ NewTemplatePlaceholder(n, arg)
          \/ NewGenericPlaceholder(n, arg)
          \/ NewTuple(n, arg)
          \/ NewLiteral(n, arg)
    \/ Probe

(***************************************************************************)
(* A mapping keyed by GenericPlaceholders: d[GenericPlaceholder(v)] = v    *)
(* stores under each key the literal the key was made of.                  *)
(***************************************************************************)
VARIABLES
    d,          \* the dict
    inserted,   \* the literals v for which d[GenericPlaceholder(v)] = v has run
    got         \* <<v, outcome, number of insertions before it>> of the last
                \* lookup d[GenericPlaceholder(v)], or NoLookup

NoLookup == <<None, Raise("NameError"), 0>>

Insert(v) ==
    /\ Len(inserted) < MaxInserts
    /\ d' = DictSetItem(d, Value(GenericPlaceholder(v)), v)
    /\ inserted' = Append(inserted, v)
    /\ UNCHANGED got

Lookup(v) ==
    /\ got' = <<v, DictGetItem(d, Value(GenericPlaceholder(v))), Len(inserted)>>
    /\ UNCHANGED <<d, inserted>>

dictVars == <<d, inserted, got>>

DictInit ==
    /\ d = EmptyDict
    /\ inserted = <<>>
    /\ got = NoLookup

DictNext == \E v \in Literals : Insert(v) \/ Lookup(v)

(***************************************************************************)
(* Specifications                                                          *)
(***************************************************************************)
vars == <<registryVars, placeholderVars, dictVars>>

\* The registry and the tree builders under concurrent callers.
Init == RegistryInit /\ PlaceholderInit /\ DictInit
Next == RegistryNext /\ UNCHANGED <<placeholderVars, dictVars>>
Spec == Init /\ [][Next]_vars

\* The placeholder classes.
NextPlaceholder == PlaceholderNext /\ UNCHANGED <<registryVars, dictVars>>
SpecPlaceholder == Init /\ [][NextPlaceholder]_vars

\* The placeholder-keyed mapping.
NextDict == DictNext /\ UNCHANGED <<registryVars, placeholderVars>>
SpecDict == Init /\ [][NextDict]_vars

(***************************************************************************)
(* Properties of the registry and the tree builders (Spec)                 *)
(***************************************************************************)
Fn(c) == call[c][1]
PredictorTypeOf(c) == call[c][2]
ListingOf(c) == call[c][3]

\* The keys of model_template.
RegisteredTypes ==
    {Entries(model_template)[i][1] : i \in 1..Len(Entries(model_template))}

PatternFns == {"model_pattern", "dirs_model_pattern"}
BuilderFns == {"models_tree_from_s3_top_paths", "models_tree_from_s3_path"}

\* C1: for every predictor type registered in model_template, model_pattern
\* and dirs_model_pattern return a non-empty tree, and the tree of
\* dirs_model_pattern is the one-entry mapping from UniquePlaceholder to the
\* tree that model_pattern returns.
C1_RegisteredPatterns ==
    /\ RegisteredTypes =
          {PythonPredictorType, TensorFlowPredictorType, ONNXPredictorType}
    /\ \A c \in Callers :
           (Fn(c) \in PatternFns /\ PredictorTypeOf(c) \in RegisteredTypes) =>
               /\ Returned(ret[c])
               /\ Cls(Value(ret[c])) = "dict"
               /\ Entries(Value(ret[c])) # <<>>
               /\ Fn(c) = "dirs_model_pattern" =>
                    /\ Len(Entries(Value(ret[c]))) = 1
                    /\ Entries(Value(ret[c]))[1][1] = UniquePlaceholder
                    /\ \A c2 \in Callers :
                          call[c2] = <<"model_pattern", PredictorTypeOf(c), <<>>>> =>
                              Entries(Value(ret[c]))[1][2] = Value(ret[c2])

C1_Witness ==
    \E c1, c2 \in Callers :
        /\ call[c1] = <<"dirs_model_pattern", TensorFlowPredictorType, <<>>>>
        /\ call[c2] = <<"model_pattern", TensorFlowPredictorType, <<>>>>
        /\ Returned(ret[c1]) /\ Returned(ret[c2])

\* C2: for a predictor type that is not a key of model_template, model_pattern
\* and dirs_model_pattern raise KeyError and return nothing, and
\* model_template is as it was.
C2_UnknownTypeRaises ==
    \A c \in Callers :
        (Fn(c) \in PatternFns /\ PredictorTypeOf(c) \notin RegisteredTypes) =>
            /\ ret[c] = Raise("KeyError")
            /\ model_template = ModelTemplate

C2_Witness ==
    \E c1, c2 \in Callers :
        /\ call[c1] = <<"model_pattern", UnknownPredictorType, <<>>>>
        /\ call[c2] = <<"dirs_model_pattern", UnknownPredictorType, <<>>>>
        /\ Raised(ret[c1], "KeyError") /\ Raised(ret[c2], "KeyError")

\* C3: whatever the callers have called, model_template has the content it was
\* built with, and two calls of model_pattern with the same predictor type
\* have the same outcome.
C3_TemplateNeverChanges ==
    /\ model_template = ModelTemplate
    /\ \A c1, c2 \in Callers :
          (Fn(c1) = "model_pattern" /\ call[c1] = call[c2]) => ret[c1] = ret[c2]

C3_Witness ==
    \E c1, c2 \in Callers :
        /\ Fn(c1) \in BuilderFns \cup {"dirs_model_pattern"}
        /\ PredictorTypeOf(c1) \in RegisteredTypes
        /\ Fn(c2) = "model_pattern"
        /\ PredictorTypeOf(c2) = PredictorTypeOf(c1)
        /\ Returned(ret[c2])

\* The segments of a path: the pieces between its "/" characters.
RECURSIVE Segments(_)
Segments(s) ==
    IF \A i \in 1..Len(s) : s[i] # "/" THEN <<s>>
    ELSE LET i == CHOOSE j \in 1..Len(s) :
                     s[j] = "/" /\ \A k \in 1..(j - 1) : s[k] # "/"
         IN  <<SubSeq(s, 1, i - 1)>> \o Segments(SubSeq(s, i + 1, Len(s)))

\* The tree holds the path: every directory segment is a key of a nested
\* mapping and the last segment maps to a leaf, which is not a mapping.
RECURSIVE TreeHasPath(_, _)
TreeHasPath(tree, segments) ==
    /\ Cls(tree) = "dict"
    /\ Returned(DictGetItem(tree, PyStr(Head(segments))))
    /\ LET child == Value(DictGetItem(tree, PyStr(Head(segments))))
       IN  IF Len(segments) = 1
           THEN Cls(child) # "dict"
           ELSE TreeHasPath(child, Tail(segments))

\* C8: the tree a tree builder returns holds every path of the listing, and it
\* is empty only when the listing is empty.
C8_TreeHoldsEveryPath ==
    \A c \in Callers :
        Fn(c) \in BuilderFns =>
            /\ Returned(ret[c])
            /\ \A i \in 1..Len(ListingOf(c)) :
                  TreeHasPath(Value(ret[c]), Segments(ListingOf(c)[i][2]))
            /\ (Value(ret[c]) = EmptyDict) <=> (ListingOf(c) = <<>>)

\* The listing without its repeated paths, first occurrences kept.
RECURSIVE RemoveRepeats(_)
RemoveRepeats(listing) ==
    IF listing = <<>> THEN <<>>
    ELSE LET n == Len(listing)
             front == RemoveRepeats(SubSeq(listing, 1, n - 1))
         IN  IF \E i \in 1..Len(front) : front[i] = listing[n]
             THEN front
             ELSE Append(front, listing[n])

\* C9: two calls of a tree builder with the same predictor type and the same
\* listing, or with listings that differ only by repeated paths, return equal
\* trees, whatever was called before.
C9_TreeBuildingIdempotent ==
    \A c1, c2 \in Callers :
        ( /\ Fn(c1) \in BuilderFns
          /\ Fn(c2) = Fn(c1)
          /\ PredictorTypeOf(c2) = PredictorTypeOf(c1)
          /\ RemoveRepeats(ListingOf(c1)) = RemoveRepeats(ListingOf(c2)) ) =>
            /\ Returned(ret[c1])
            /\ ret[c1] = ret[c2]

C9_Witness ==
    \E c1, c2 \in Callers, q \in Paths :
        /\ Fn(c1) = "models_tree_from_s3_path" /\ Fn(c2) = Fn(c1)
        /\ PredictorTypeOf(c2) = PredictorTypeOf(c1)
        /\ ListingOf(c1) = <<q, q>>
        /\ ListingOf(c2) = <<q>>
        /\ Returned(ret[c1]) /\ Returned(ret[c2])

(***************************************************************************)
(* Properties of the placeholder classes (SpecPlaceholder)                 *)
(***************************************************************************)
A == Obj("a")
B == Obj("b")
IsGeneric(o) == Cls(o) = "GenericPlaceholder"
IsTemplate(o) == Cls(o) = "TemplatePlaceholder"

\* C4: two GenericPlaceholders are equal whatever their values, and a
\* GenericPlaceholder is equal to no object of another class, in either
\* operand order.
C4_GenericEqualityByTag ==
    Probed =>
        /\ (IsGeneric(A) /\ IsGeneric(B)) => (EqAB /\ EqBA)
        /\ (IsGeneric(A) # IsGeneric(B)) => (~EqAB /\ ~EqBA)

C4_Witness ==
    /\ Probed
    /\ IsGeneric(A) /\ IsGeneric(B)
    /\ PlaceholderValue(A) # PlaceholderValue(B)
    /\ EqAB

\* C6: TemplatePlaceholder(k).type is k for every kind string k, and
\* TemplatePlaceholder(k1) == TemplatePlaceholder(k2) exactly when k1 = k2.
C6_TypeReturnsKind ==
    ( /\ Probed
      /\ made["a"][1] = "TemplatePlaceholder"
      /\ made["b"][1] = "TemplatePlaceholder" ) =>
        /\ TypeA = Return(made["a"][2])
        /\ TypeB = Return(made["b"][2])
        /\ EqAB <=> (made["a"][2] = made["b"][2])

\* C7: constructing a TemplatePlaceholder or a GenericPlaceholder from the
\* empty string raises an error and yields no object.
C7_EmptyArgumentRejected ==
    \A n \in Names :
        ( /\ made[n][1] \in {"TemplatePlaceholder", "GenericPlaceholder"}
          /\ made[n][2] = PyStr(<<>>) ) =>
            ~Returned(made[n][3])

\* C10: two placeholders that are equal have equal hashes.
C10_HashConsistentWithEq ==
    ( /\ Probed
      /\ IsGeneric(A) \/ IsTemplate(A)
      /\ IsGeneric(B) \/ IsTemplate(B)
      /\ EqAB ) =>
        HashA = HashB

(***************************************************************************)
(* Properties of the placeholder-keyed mapping (SpecDict)                  *)
(***************************************************************************)
InsertedSet == {inserted[i] : i \in 1..Len(inserted)}

\* C5: the mapping has one entry for each distinct literal inserted, and a
\* lookup with GenericPlaceholder(v) after v was inserted returns the entry
\* stored for v.
C5_EntriesDistinguishedByValue ==
    /\ Len(Entries(d)) = Cardinality(InsertedSet)
    /\ (got[3] = Len(inserted) /\ got[1] \in InsertedSet) =>
          got[2] = Return(got[1])

====
